---- MODULE Spec2Model ----
(***************************************************************************)
(* Model of the five presentation styles of the text-extraction request    *)
(* configuration (1.simple.py, 2.extend.py, 3.config.py, 4.functional.py,  *)
(* 5.chains.py).  A client picks one style, supplies settings, and the     *)
(* style produces the header map that is handed to requests.post.          *)
(***************************************************************************)
EXTENDS Integers, Sequences, FiniteSets, TLC

VARIABLES
    style,     \* the presentation style (source file) the client uses
    args,      \* keyword arguments / config fields of the call (2.extend.py:6-17)
    outcome,   \* "none" before the call, then "ok" or the exception raised
    headers,   \* the dict handed to requests.post (styles 1 to 4)
    applied,   \* the options / builder calls made so far, in call order
    heap,      \* dict objects by reference (5.chains.py: self._options)
    returned,  \* the reference build() returned, 0 before the first build()
    snapshot   \* what the returned dict held when build() first returned it

vars == <<style, args, outcome, headers, applied, heap, returned, snapshot>>

(***************************************************************************)
(* Bounds of the model.                                                    *)
(***************************************************************************)
\* Largest "small" positive timeout the client supplies (besides 30).
MaxTimeout == 1
\* Number of option applications (4.functional.py) or builder calls
\* (5.chains.py) the client makes.
MaxCalls == 3

\* The timeout of the repository's example usages.
ExampleTimeout == 30

(***************************************************************************)
(* Python values.  A value is a record tagged with its Python type, so     *)
(* that True, "true" and 1 stay different values.                          *)
(***************************************************************************)
NoneV == [kind |-> "none", b |-> FALSE, s |-> "", n |-> 0]
BoolV(x) == [kind |-> "bool", b |-> x, s |-> "", n |-> 0]
StrV(x) == [kind |-> "str", b |-> FALSE, s |-> x, n |-> 0]
IntV(x) == [kind |-> "int", b |-> FALSE, s |-> "", n |-> x]

\* A Python dict: a function from its keys to values.
EmptyDict == [k \in {} |-> NoneV]

\* d[k] = v
SetItem(d, k, v) == [x \in (DOMAIN d) \cup {k} |-> IF x = k THEN v ELSE d[x]]

\* isinstance(v, int): bool is a subclass of int in Python.
IsInstanceInt(v) == v.kind \in {"int", "bool"}

\* The integer a value compares as (True is 1, False is 0).
IntOf(v) == IF v.kind = "bool" THEN (IF v.b THEN 1 ELSE 0) ELSE v.n

\* The characters of the str values the client supplies.
Chars(s) ==
    CASE s = "30" -> <<"3", "0">>
      [] s = "abc" -> <<"a", "b", "c">>
      [] OTHER -> <<>>

DigitValue(c) ==
    CASE c = "0" -> 0 [] c = "1" -> 1 [] c = "2" -> 2 [] c = "3" -> 3
      [] c = "4" -> 4 [] c = "5" -> 5 [] c = "6" -> 6 [] c = "7" -> 7
      [] c = "8" -> 8 [] c = "9" -> 9 [] OTHER -> 0 - 1

\* Decimal parse of a sequence of characters; -1 when it is no number.
RECURSIVE ParseDigits(_, _)
ParseDigits(cs, acc) ==
    IF cs = <<>> THEN acc
    ELSE IF DigitValue(Head(cs)) < 0 THEN 0 - 1
    ELSE ParseDigits(Tail(cs), acc * 10 + DigitValue(Head(cs)))

(***************************************************************************)
(* The settings a caller supplies (keyword arguments / config fields).     *)
(***************************************************************************)
ValidRotations == {0, 90, 180, 270}

RotationInputs == {0, 45, 90, 180, 270, 360}

TimeoutInts == ((0 - 1) .. MaxTimeout) \cup {ExampleTimeout}

TimeoutInputs ==
    {NoneV} \cup {IntV(n) : n \in TimeoutInts} \cup {StrV("30"), StrV("abc")}

\* The declared defaults of the keyword arguments / config fields.
DefaultArgs ==
    [as_plain_text |-> TRUE, with_ocr |-> FALSE, timeout |-> NoneV,
     with_bounding_boxes |-> FALSE, inline_ocr |-> FALSE,
     ocr_with_text |-> FALSE, rotate_angle |-> 0, detect_tables |-> FALSE]

ArgSets ==
    [as_plain_text : BOOLEAN, with_ocr : BOOLEAN, timeout : TimeoutInputs,
     with_bounding_boxes : BOOLEAN, inline_ocr : BOOLEAN,
     ocr_with_text : BOOLEAN, rotate_angle : RotationInputs,
     detect_tables : BOOLEAN]

\* The result of a call: how it ended and the header map it built.
Ok(h) == [outcome |-> "ok", headers |-> h]
Raise(e) == [outcome |-> e, headers |-> EmptyDict]

(***************************************************************************)
(* 1.simple.py                                                             *)
(***************************************************************************)
SimpleGetText(a) ==
    LET h0 == EmptyDict
        h1 == IF ~a.with_ocr THEN SetItem(h0, "SkipOCR", StrV("true")) ELSE h0
        h2 == IF a.as_plain_text
              THEN SetItem(h1, "Accept", StrV("text/plain")) ELSE h1
    IN Ok(h2)

(***************************************************************************)
(* 2.extend.py                                                             *)
(***************************************************************************)
ExtendGetText(a) ==
    LET h0 == EmptyDict
        h1 == IF a.timeout # NoneV
              THEN SetItem(h0, "timeout", a.timeout) ELSE h0
        h2 == IF a.rotate_angle # 0
              THEN SetItem(h1, "rotate_angle", IntV(a.rotate_angle)) ELSE h1
        h3 == IF a.detect_tables
              THEN SetItem(h2, "detect_tables", BoolV(TRUE)) ELSE h2
        h4 == IF a.with_bounding_boxes
              THEN SetItem(h3, "with_bounding_boxes", BoolV(TRUE)) ELSE h3
        h5 == IF a.ocr_with_text
              THEN SetItem(h4, "ocr_with_text", BoolV(TRUE)) ELSE h4
        h6 == IF a.as_plain_text
              THEN SetItem(h5, "as_plain_text", BoolV(TRUE)) ELSE h5
        h7 == IF ~a.with_ocr THEN SetItem(h6, "SkipOCR", StrV("true")) ELSE h6
        h8 == IF a.inline_ocr
              THEN SetItem(h7, "inline_ocr", StrV("true")) ELSE h7
        h9 == IF a.as_plain_text
              THEN SetItem(h8, "Accept", StrV("text/plain")) ELSE h8
    IN IF a.timeout # NoneV /\ ~IsInstanceInt(a.timeout)
       THEN Raise("TypeError")
       ELSE IF a.timeout # NoneV /\ IntOf(a.timeout) <= 0
       THEN Raise("ValueError")
       ELSE IF a.rotate_angle \notin ValidRotations
       THEN Raise("ValueError")
       ELSE Ok(h9)

(***************************************************************************)
(* 3.config.py                                                             *)
(***************************************************************************)
\* The field `timeout: Optional[int]` of a pydantic BaseModel with the
\* default (lax) configuration: None and ints pass, a str is parsed as a
\* decimal number, anything else is rejected.  The result is the value the
\* field validator sees, or "invalid".
CoerceOptionalInt(v) ==
    CASE v.kind = "none" -> [valid |-> TRUE, value |-> NoneV]
      [] v.kind = "int" -> [valid |-> TRUE, value |-> v]
      [] v.kind = "str" ->
           LET n == ParseDigits(Chars(v.s), 0)
           IN IF Chars(v.s) # <<>> /\ n >= 0
              THEN [valid |-> TRUE, value |-> IntV(n)]
              ELSE [valid |-> FALSE, value |-> NoneV]
      [] OTHER -> [valid |-> FALSE, value |-> NoneV]

\* validate_timeout: TRUE when the value is accepted.
validate_timeout(value) == ~(value # NoneV /\ IntOf(value) <= 0)

\* validate_rotate_angle: TRUE when the value is accepted.
validate_rotate_angle(value) == value \in ValidRotations

\* TextExtractionConfig(**a): the validated config, or a ValidationError.
TextExtractionConfig(a) ==
    LET t == CoerceOptionalInt(a.timeout)
    IN IF ~t.valid \/ ~validate_timeout(t.value)
          \/ ~validate_rotate_angle(a.rotate_angle)
       THEN [valid |-> FALSE, config |-> DefaultArgs]
       ELSE [valid |-> TRUE, config |-> [a EXCEPT !.timeout = t.value]]

to_headers(self) ==
    LET h0 == EmptyDict
        h1 == IF self.timeout # NoneV
              THEN SetItem(h0, "timeout", self.timeout) ELSE h0
        h2 == IF self.rotate_angle # 0
              THEN SetItem(h1, "rotate_angle", IntV(self.rotate_angle)) ELSE h1
        h3 == IF self.with_ocr
              THEN SetItem(h2, "with_ocr", BoolV(TRUE)) ELSE h2
        h4 == IF self.with_ocr /\ self.with_bounding_boxes
              THEN SetItem(h3, "with_bounding_boxes", BoolV(TRUE)) ELSE h3
        h5 == IF self.with_ocr /\ self.inline_ocr
              THEN SetItem(h4, "inline_ocr", BoolV(TRUE)) ELSE h4
        h6 == IF self.with_ocr /\ self.detect_tables
              THEN SetItem(h5, "detect_tables", BoolV(TRUE)) ELSE h5
        h7 == IF self.as_plain_text
              THEN SetItem(h6, "as_plain_text", BoolV(TRUE)) ELSE h6
    IN h7

ConfigGetText(a) ==
    LET c == TextExtractionConfig(a)
    IN IF c.valid THEN Ok(to_headers(c.config)) ELSE Raise("ValidationError")

(***************************************************************************)
(* Options of 4.functional.py and builder calls of 5.chains.py.  A call is *)
(* recorded with the arguments the client gave it.                         *)
(***************************************************************************)
OptionKinds == {"AsPlainText", "WithOCR", "WithTimeout", "WithRotation"}

AsPlainTextCall ==
    [kind |-> "AsPlainText", seconds |-> NoneV, degrees |-> 0,
     inline |-> FALSE, with_bounding_boxes |-> FALSE, detect_tables |-> FALSE]

WithTimeoutCall(seconds) == [AsPlainTextCall EXCEPT !.kind = "WithTimeout",
                                                    !.seconds = seconds]

WithRotationCall(degrees) == [AsPlainTextCall EXCEPT !.kind = "WithRotation",
                                                     !.degrees = degrees]

WithOCRCall(inline, with_bounding_boxes, detect_tables) ==
    [AsPlainTextCall EXCEPT !.kind = "WithOCR", !.inline = inline,
                            !.with_bounding_boxes = with_bounding_boxes,
                            !.detect_tables = detect_tables]

\* The timeouts a client passes to WithTimeout / timeout (never None).
SecondsInputs == TimeoutInputs \ {NoneV}

\* The check both styles make of a timeout before accepting it: the
\* exception raised, or "none".
TimeoutCheck(seconds) ==
    IF ~IsInstanceInt(seconds) THEN "TypeError"
    ELSE IF IntOf(seconds) <= 0 THEN "ValueError"
    ELSE "none"

\* The check both styles make of a rotation before accepting it.
RotationCheck(degrees) ==
    IF degrees \notin ValidRotations THEN "ValueError" ELSE "none"

\* Evaluating Options.<kind>(...) in 4.functional.py, or calling the
\* builder method in 5.chains.py: the exception raised, or "none".
CallCheck(c) ==
    CASE c.kind = "WithTimeout" -> TimeoutCheck(c.seconds)
      [] c.kind = "WithRotation" -> RotationCheck(c.degrees)
      [] OTHER -> "none"

(***************************************************************************)
(* 4.functional.py: the closures `apply` of each option.                   *)
(***************************************************************************)
ApplyAsPlainText(opt) == SetItem(opt, "as_plain_text", BoolV(TRUE))

ApplyWithTimeout(seconds, opt) == SetItem(opt, "timeout", seconds)

ApplyWithRotation(degrees, opt) ==
    IF degrees # 0 THEN SetItem(opt, "rotate_angle", IntV(degrees)) ELSE opt

\* A variant of the OCR option that starts from a new dict instead of
\* updating the one it is given.
ApplyWithOCRFresh(inline, with_bounding_boxes, detect_tables, opt) ==
    LET o1 == SetItem(EmptyDict, "with_ocr", BoolV(TRUE))
        o2 == IF inline THEN SetItem(o1, "inline_ocr", BoolV(TRUE)) ELSE o1
        o3 == IF with_bounding_boxes
              THEN SetItem(o2, "with_bounding_boxes", BoolV(TRUE)) ELSE o2
        o4 == IF detect_tables
              THEN SetItem(o3, "detect_tables", BoolV(TRUE)) ELSE o3
    IN o4

ApplyWithOCR(inline, with_bounding_boxes, detect_tables, opt) ==
    LET o1 == SetItem(opt, "with_ocr", BoolV(TRUE))
        o2 == IF inline THEN SetItem(o1, "inline_ocr", BoolV(TRUE)) ELSE o1
        o3 == IF with_bounding_boxes
              THEN SetItem(o2, "with_bounding_boxes", BoolV(TRUE)) ELSE o2
        o4 == IF detect_tables
              THEN SetItem(o3, "detect_tables", BoolV(TRUE)) ELSE o3
    IN o4

\* option(headers) for the closure a call produced.
ApplyOption(c, opt) ==
    CASE c.kind = "AsPlainText" -> ApplyAsPlainText(opt)
      [] c.kind = "WithTimeout" -> ApplyWithTimeout(c.seconds, opt)
      [] c.kind = "WithRotation" -> ApplyWithRotation(c.degrees, opt)
      [] c.kind = "WithOCR" ->
           ApplyWithOCR(c.inline, c.with_bounding_boxes, c.detect_tables, opt)

\* The loop of get_text: headers = option(headers) for each option in turn.
RECURSIVE FoldOptions(_, _)
FoldOptions(options, hdrs) ==
    IF options = <<>> THEN hdrs
    ELSE FoldOptions(Tail(options), ApplyOption(Head(options), hdrs))

FunctionalGetText(options) == Ok(FoldOptions(options, EmptyDict))

(***************************************************************************)
(* 5.chains.py: the builder's methods, as the new contents of the dict     *)
(* self._options refers to.                                                *)
(***************************************************************************)
\* The object the builder's _options field refers to (allocated by __init__).
OptionsRef == 1

Options_as_plain_text(d) == SetItem(d, "as_plain_text", BoolV(TRUE))

Options_with_ocr(inline, with_bounding_boxes, detect_tables, d) ==
    LET o1 == SetItem(d, "with_ocr", BoolV(TRUE))
        o2 == IF inline THEN SetItem(o1, "inline_ocr", BoolV(TRUE)) ELSE o1
        o3 == IF with_bounding_boxes
              THEN SetItem(o2, "with_bounding_boxes", BoolV(TRUE)) ELSE o2
        o4 == IF detect_tables
              THEN SetItem(o3, "detect_tables", BoolV(TRUE)) ELSE o3
    IN o4

Options_timeout(seconds, d) == SetItem(d, "timeout", seconds)

Options_rotate(degrees, d) ==
    IF degrees # 0 THEN SetItem(d, "rotate_angle", IntV(degrees)) ELSE d

\* The method a recorded call stands for, applied to the dict.
ChainCall(c, d) ==
    CASE c.kind = "AsPlainText" -> Options_as_plain_text(d)
      [] c.kind = "WithTimeout" -> Options_timeout(c.seconds, d)
      [] c.kind = "WithRotation" -> Options_rotate(c.degrees, d)
      [] c.kind = "WithOCR" ->
           Options_with_ocr(c.inline, c.with_bounding_boxes, c.detect_tables, d)

\* build(): the reference it returns.
Options_build == OptionsRef

(***************************************************************************)
(* The state machine.                                                      *)
(***************************************************************************)
Styles == {"simple", "extend", "config", "functional", "chains"}

Errors == {"TypeError", "ValueError", "ValidationError"}

Init ==
    /\ style \in Styles
    /\ args = DefaultArgs
    /\ outcome = "none"
    /\ headers = EmptyDict
    /\ applied = <<>>
    /\ heap = IF style = "chains" THEN <<EmptyDict>> ELSE <<>>
    /\ returned = 0
    /\ snapshot = EmptyDict

\* A keyword-argument call of get_text, or TextExtractionConfig + get_text.
Finish(a, r) ==
    /\ outcome = "none"
    /\ args' = a
    /\ outcome' = r.outcome
    /\ headers' = r.headers
    /\ UNCHANGED <<style, applied, heap, returned, snapshot>>

GetTextSimple(as_plain_text, with_ocr) ==
    /\ style = "simple"
    /\ LET a == [DefaultArgs EXCEPT !.as_plain_text = as_plain_text,
                                    !.with_ocr = with_ocr]
       IN Finish(a, SimpleGetText(a))

GetTextExtend(a) ==
    /\ style = "extend"
    /\ Finish(a, ExtendGetText(a))

GetTextConfig(a) ==
    /\ style = "config"
    /\ Finish(a, ConfigGetText(a))

\* 4.functional.py: the client evaluates Options.<kind>(...) as the next
\* argument of get_text; a raising factory ends the call.
MakeOption(c) ==
    /\ style = "functional"
    /\ outcome = "none"
    /\ Len(applied) < MaxCalls
    /\ applied' = Append(applied, c)
    /\ outcome' = CallCheck(c)
    /\ UNCHANGED <<style, args, headers, heap, returned, snapshot>>

\* 4.functional.py: get_text(file, *options).
GetTextFunctional ==
    /\ style = "functional"
    /\ outcome = "none"
    /\ LET r == FunctionalGetText(applied)
       IN /\ outcome' = r.outcome
          /\ headers' = r.headers
    /\ UNCHANGED <<style, args, applied, heap, returned, snapshot>>

\* 5.chains.py: one call on the builder; a raising call leaves it as it was.
BuilderCall(c) ==
    /\ style = "chains"
    /\ outcome \notin Errors
    /\ Len(applied) < MaxCalls
    /\ applied' = Append(applied, c)
    /\ IF CallCheck(c) # "none"
       THEN /\ outcome' = CallCheck(c)
            /\ heap' = heap
       ELSE /\ outcome' = outcome
            /\ heap' = [heap EXCEPT ![OptionsRef] = ChainCall(c, heap[OptionsRef])]
    /\ UNCHANGED <<style, args, headers, returned, snapshot>>

\* 5.chains.py: build().  snapshot keeps what the first returned map held
\* when it was returned.
Build ==
    /\ style = "chains"
    /\ outcome \notin Errors
    /\ returned' = Options_build
    /\ snapshot' = IF returned = 0 THEN heap[Options_build] ELSE snapshot
    /\ outcome' = "ok"
    /\ UNCHANGED <<style, args, headers, applied, heap>>

AsPlainText == MakeOption(AsPlainTextCall)
WithTimeout ==
    style = "functional" /\ \E s \in SecondsInputs : MakeOption(WithTimeoutCall(s))
WithRotation ==
    style = "functional" /\ \E d \in RotationInputs : MakeOption(WithRotationCall(d))
WithOCR ==
    style = "functional" /\ \E i, b, t \in BOOLEAN : MakeOption(WithOCRCall(i, b, t))

as_plain_text == BuilderCall(AsPlainTextCall)
timeout ==
    style = "chains" /\ \E s \in SecondsInputs : BuilderCall(WithTimeoutCall(s))
rotate ==
    style = "chains" /\ \E d \in RotationInputs : BuilderCall(WithRotationCall(d))
with_ocr ==
    style = "chains" /\ \E i, b, t \in BOOLEAN : BuilderCall(WithOCRCall(i, b, t))

Simple == style = "simple" /\ \E p, o \in BOOLEAN : GetTextSimple(p, o)
Extend ==
    style = "extend" /\ outcome = "none" /\ \E a \in ArgSets : GetTextExtend(a)
Config ==
    style = "config" /\ outcome = "none" /\ \E a \in ArgSets : GetTextConfig(a)

Next ==
    \/ Simple
    \/ Extend
    \/ Config
    \/ AsPlainText
    \/ WithTimeout
    \/ WithRotation
    \/ WithOCR
    \/ GetTextFunctional
    \/ as_plain_text
    \/ timeout
    \/ rotate
    \/ with_ocr
    \/ Build

Spec == Init /\ [][Next]_vars

(***************************************************************************)
(* Vocabulary of the properties.                                           *)
(***************************************************************************)
\* A header map has been produced, and HeaderMap is that map.  In
\* 5.chains.py the map is the object build() returned, read now.
Produced == IF style = "chains" THEN returned # 0 ELSE outcome = "ok"

HeaderMap == IF style = "chains" THEN heap[returned] ELSE headers

Has(h, k) == k \in DOMAIN h

ChildKeys == {"with_bounding_boxes", "inline_ocr", "ocr_with_text", "detect_tables"}

\* A header value that says "true", as the bool or as the string.
IsTrue(v) == v = BoolV(TRUE) \/ v = StrV("true")

\* Two header values are the same on the wire.
SameValue(v, w) == v = w \/ (IsTrue(v) /\ IsTrue(w))

SameMap(h, e) ==
    /\ DOMAIN h = DOMAIN e
    /\ \A k \in DOMAIN e : SameValue(h[k], e[k])

\* The calls of a sequence that were accepted (did not raise).
Accepted(calls) == SelectSeq(calls, LAMBDA c : CallCheck(c) = "none")

OfKind(calls, kind) == SelectSeq(calls, LAMBDA c : c.kind = kind)

Last(s) == s[Len(s)]

\* Keeping, for each kind of call, only its last application.
RECURSIVE KeepLast(_)
KeepLast(calls) ==
    IF calls = <<>> THEN <<>>
    ELSE IF \E j \in 2 .. Len(calls) : calls[j].kind = Head(calls).kind
    THEN KeepLast(Tail(calls))
    ELSE <<Head(calls)>> \o KeepLast(Tail(calls))

RECURSIVE FoldChain(_, _)
FoldChain(calls, d) ==
    IF calls = <<>> THEN d
    ELSE FoldChain(Tail(calls), ChainCall(Head(calls), d))

\* The header map a sequence of accepted calls yields in the current style.
Resolve(calls) ==
    IF style = "chains" THEN FoldChain(calls, EmptyDict)
    ELSE FoldOptions(calls, EmptyDict)

Perms(n) == {p \in [1 .. n -> 1 .. n] : \A i, j \in 1 .. n : i # j => p[i] # p[j]}

Permute(s, p) == [i \in 1 .. Len(s) |-> s[p[i]]]

DistinctKinds(calls) ==
    \A i, j \in 1 .. Len(calls) : i # j => calls[i].kind # calls[j].kind

BadTimeout(v) == v # NoneV /\ (v.kind # "int" \/ v.n <= 0)

GoodTimeout(v) == v.kind = "int" /\ v.n > 0

KeywordStyle == style \in {"extend", "config"}

CallStyle == style \in {"functional", "chains"}

(***************************************************************************)
(* Properties.                                                             *)
(***************************************************************************)
\* C1: with with_ocr=false, whatever the caller supplies for the four OCR
\* child settings, the header map of 2.extend.py and 3.config.py contains
\* none of the keys with_bounding_boxes, inline_ocr, ocr_with_text,
\* detect_tables.
C1_NoChildWithoutOcr ==
    (KeywordStyle /\ outcome = "ok" /\ ~args.with_ocr)
        => (DOMAIN headers) \cap ChildKeys = {}

\* C2: the header map never contains an entry for a setting whose value is
\* that setting's declared default (as_plain_text=true, with_ocr=false,
\* rotate_angle=0, an OCR child flag=false).
C2_NoDefaultInMap ==
    Produced =>
        /\ ~(Has(HeaderMap, "as_plain_text") /\ HeaderMap["as_plain_text"] = BoolV(TRUE))
        /\ ~(Has(HeaderMap, "with_ocr") /\ HeaderMap["with_ocr"] = BoolV(FALSE))
        /\ ~(Has(HeaderMap, "rotate_angle") /\ HeaderMap["rotate_angle"] = IntV(0))
        /\ \A c \in ChildKeys : ~(Has(HeaderMap, c) /\ HeaderMap[c] = BoolV(FALSE))

\* C3: a timeout that is <= 0 or not an integer makes building fail and no
\* header map is produced; a positive integer timeout appears in the header
\* map as the key timeout with exactly that integer (every style that takes
\* a timeout).
C3_TimeoutValidated ==
    /\ (KeywordStyle /\ outcome # "none")
         => /\ BadTimeout(args.timeout) => outcome \in Errors
            /\ (GoodTimeout(args.timeout) /\ outcome = "ok")
                 => (Has(headers, "timeout") /\ headers["timeout"] = args.timeout)
    /\ (CallStyle /\ applied # <<>> /\ Last(applied).kind = "WithTimeout"
          /\ BadTimeout(Last(applied).seconds))
         => outcome \in Errors
    /\ (CallStyle /\ Produced /\ OfKind(Accepted(applied), "WithTimeout") # <<>>)
         => /\ Has(HeaderMap, "timeout")
            /\ HeaderMap["timeout"] = Last(OfKind(Accepted(applied), "WithTimeout")).seconds

\* C4: a rotate_angle outside {0, 90, 180, 270} makes building fail; a
\* requested rotation of 0 leaves no rotate_angle entry and a requested
\* 90, 180 or 270 gives rotate_angle that value, the requested rotation in
\* 4.functional.py and 5.chains.py being that of the last rotation call.
C4_RotationValidated ==
    /\ (KeywordStyle /\ outcome # "none")
         => /\ args.rotate_angle \notin ValidRotations => outcome \in Errors
            /\ (outcome = "ok" /\ args.rotate_angle = 0) => ~Has(headers, "rotate_angle")
            /\ (outcome = "ok" /\ args.rotate_angle # 0)
                 => (Has(headers, "rotate_angle")
                     /\ headers["rotate_angle"] = IntV(args.rotate_angle))
    /\ (CallStyle /\ applied # <<>> /\ Last(applied).kind = "WithRotation"
          /\ Last(applied).degrees \notin ValidRotations)
         => outcome \in Errors
    /\ (CallStyle /\ Produced /\ OfKind(Accepted(applied), "WithRotation") # <<>>)
         => LET d == Last(OfKind(Accepted(applied), "WithRotation")).degrees
            IN IF d = 0 THEN ~Has(HeaderMap, "rotate_angle")
               ELSE Has(HeaderMap, "rotate_angle") /\ HeaderMap["rotate_angle"] = IntV(d)

\* The configuration "OCR enabled, bounding boxes on, rotate 90, timeout 30".
ExampleArgs ==
    [DefaultArgs EXCEPT !.with_ocr = TRUE, !.with_bounding_boxes = TRUE,
                        !.rotate_angle = 90, !.timeout = IntV(ExampleTimeout)]

\* The same configuration as calls: the OCR call with bounding boxes on and
\* the other flags off, rotation 90, timeout 30, in any order, with or
\* without the plain-text call.
ExampleCalls(calls) ==
    /\ DistinctKinds(calls)
    /\ OfKind(calls, "WithOCR") = <<WithOCRCall(FALSE, TRUE, FALSE)>>
    /\ OfKind(calls, "WithRotation") = <<WithRotationCall(90)>>
    /\ OfKind(calls, "WithTimeout") = <<WithTimeoutCall(IntV(ExampleTimeout))>>

ExampleHeaders ==
    SetItem(SetItem(SetItem(SetItem(SetItem(EmptyDict,
        "with_ocr", BoolV(TRUE)),
        "with_bounding_boxes", BoolV(TRUE)),
        "rotate_angle", IntV(90)),
        "timeout", IntV(ExampleTimeout)),
        "Accept", StrV("text/plain"))

\* C5: "OCR enabled, bounding boxes on, rotate 90, timeout 30" yields, in
\* every style, the header map {with_ocr: true, with_bounding_boxes: true,
\* rotate_angle: 90, timeout: 30, Accept: "text/plain"}.
C5_StylesAgreeOnExample ==
    /\ (KeywordStyle /\ outcome = "ok" /\ args = ExampleArgs)
         => SameMap(headers, ExampleHeaders)
    /\ (CallStyle /\ Produced /\ ExampleCalls(applied))
         => SameMap(HeaderMap, ExampleHeaders)

DefaultHeaders ==
    SetItem(SetItem(EmptyDict, "Accept", StrV("text/plain")), "SkipOCR", BoolV(TRUE))

\* C6: with no setting supplied the header map is exactly
\* {Accept: "text/plain", SkipOCR: true}, in every style.
C6_DefaultsMap ==
    /\ (style \in {"simple", "extend", "config"} /\ outcome = "ok" /\ args = DefaultArgs)
         => SameMap(headers, DefaultHeaders)
    /\ (CallStyle /\ Produced /\ applied = <<>>)
         => SameMap(HeaderMap, DefaultHeaders)

\* C7: for each OCR child setting c, the header map of 2.extend.py and
\* 3.config.py contains c: true if and only if c is true and with_ocr is
\* true.
C7_ChildIffOcr ==
    (KeywordStyle /\ outcome = "ok")
        => \A c \in ChildKeys :
              (Has(headers, c) /\ IsTrue(headers[c])) <=> (args[c] /\ args.with_ocr)

\* C8: in 4.functional.py and 5.chains.py the header map equals the one
\* obtained by keeping, for each setting, only its last application (last
\* write wins).
C8_LastWriteWins ==
    (CallStyle /\ Produced)
        => HeaderMap = Resolve(KeepLast(Accepted(applied)))

\* C9: when each option kind is applied at most once, every permutation of
\* the application order yields the same header map, in 4.functional.py
\* and in 5.chains.py.
C9_OrderIndependent ==
    (CallStyle /\ Produced /\ DistinctKinds(Accepted(applied)))
        => LET calls == Accepted(applied)
           IN \A p \in Perms(Len(calls)) : Resolve(Permute(calls, p)) = HeaderMap

\* C9 witness: a header map was produced from three options of three kinds
\* applied in an order other than OCR, timeout, rotation, and it has an
\* entry from each.
C9_Witness ==
    /\ CallStyle /\ Produced /\ outcome = "ok"
    /\ Len(applied) = 3 /\ DistinctKinds(applied)
    /\ applied[1].kind = "WithRotation" /\ applied[1].degrees = 90
    /\ applied[2].kind = "WithTimeout"
    /\ applied[3].kind = "WithOCR" /\ applied[3].detect_tables
    /\ {"rotate_angle", "timeout", "with_ocr", "detect_tables"} \subseteq DOMAIN HeaderMap

\* C10: once build() of 5.chains.py has returned a header map, no later
\* call on the builder changes the contents of that map.
C10_ReturnedMapFrozen ==
    (style = "chains" /\ returned # 0) => heap[returned] = snapshot

====
